---- MODULE Spec2Model ----
(***************************************************************************)
(* Court Case Reminder App (src/src/App.js): the App component's case      *)
(* collection, its localStorage mirror and the three mutating handlers.    *)
(*                                                                         *)
(* Modelling conventions                                                   *)
(*  - A JavaScript value held in the `cases` state is a record             *)
(*    [t, items]: t = "array" with the elements in items, or t = "null" /  *)
(*    "object" for a parsed JSON value that is not an array.               *)
(*  - The text kept under the key 'courtCases' is a record                 *)
(*    [kind, value, spaced]: kind = "absent" (getItem returns null),       *)
(*    "empty" (the empty string), "garbage" (text JSON.parse rejects) or   *)
(*    "json" (text of the JSON value `value`; spaced = TRUE when the text  *)
(*    holds insignificant white space, which JSON.stringify never writes). *)
(*  - A date-only string "YYYY-MM-DD" is the tuple <<y, m, d>>; the empty  *)
(*    string of the date input is <<>>.  A Date object is its time value   *)
(*    in minutes since 1970-01-01T00:00Z (every UTC offset is a whole      *)
(*    number of minutes, and the time values in play are whole minutes).   *)
(*  - One action is one React event: the handler, the re-render its state  *)
(*    update causes and the effects of that render.                        *)
(*  - Spec is the app from start-up through the mutating handlers; the     *)
(*    derived views change no state and are left out of it.  ViewSpec is   *)
(*    the settled app with a loaded collection, re-rendering its derived   *)
(*    views (filtered list, upcoming hearings, urgency) as the search and  *)
(*    filter inputs change.                                                *)
(***************************************************************************)
EXTENDS Integers, Sequences, FiniteSets, TLC

VARIABLES
    localStorage,   \* text stored under 'courtCases'
    cases,          \* useState([]) line 30
    isInitialLoad,  \* useState(true) line 56
    pc,             \* "mounting" | "idle" | "crashed" (render threw, tree unmounted)
    now,            \* reading of the device clock (Date.now())
    tzOffset,       \* device local time minus UTC, in minutes
    ops,            \* number of user events handled so far
    last,           \* history: the last event handled and the state it started from
    startup,        \* history: the stored text at start and after each mount effect
    searchTerm,     \* useState('') line 45
    filterCourt,    \* useState('') line 46
    filterCaseType, \* useState('') line 47
    rendered        \* the derived views computed by the last render (lines 266-269, 541)

viewVars == <<searchTerm, filterCourt, filterCaseType, rendered>>

vars == <<localStorage, cases, isInitialLoad, pc, now, tzOffset, ops, last,
          startup, searchTerm, filterCourt, filterCaseType, rendered>>

-----------------------------------------------------------------------------
\* Bounds of the model
MaxOps == 3
MaxCases == 2
MaxClock == 2

-----------------------------------------------------------------------------
\* JavaScript values and stored text

JArray(items) == [t |-> "array", items |-> items]
JNull == [t |-> "null", items |-> <<>>]
JObject == [t |-> "object", items |-> <<>>]

Absent == [kind |-> "absent", value |-> JNull, spaced |-> FALSE]
EmptyText == [kind |-> "empty", value |-> JNull, spaced |-> FALSE]
Garbage == [kind |-> "garbage", value |-> JNull, spaced |-> FALSE]
JsonText(v, sp) == [kind |-> "json", value |-> v, spaced |-> sp]

\* JSON.stringify(value): compact text of the value (line 103)
JSONStringify(v) == JsonText(v, FALSE)

\* JSON.parse(text) succeeds exactly on JSON text (line 88)
JSONParseThrows(text) == text.kind # "json"

\* JSON.parse(text): the value the text denotes, white space ignored (line 88)
JSONParse(text) == text.value

\* if (storedCases): neither null nor the empty string (line 87)
Truthy(text) == text.kind \notin {"absent", "empty"}

-----------------------------------------------------------------------------
\* Dates (ECMAScript Date, used at lines 171-178)

MinutesPerDay == 24 * 60

\* Day number of the civil date y-m-d, days since 1970-01-01 (MakeDay)
DaysFromCivil(y, m, d) ==
    LET yy == IF m <= 2 THEN y - 1 ELSE y
        era == yy \div 400
        yoe == yy - era * 400
        mp == IF m > 2 THEN m - 3 ELSE m + 9
        doy == (153 * mp + 2) \div 5 + d - 1
        doe == yoe * 365 + yoe \div 4 - yoe \div 100 + doy
    IN  era * 146097 + doe - 719468

\* Civil date <<y, m, d>> of a day number (YearFromTime, MonthFromTime, DateFromTime)
CivilFromDays(z) ==
    LET zz == z + 719468
        era == zz \div 146097
        doe == zz - era * 146097
        yoe == (doe - doe \div 1460 + doe \div 36524 - doe \div 146096) \div 365
        doy == doe - (365 * yoe + yoe \div 4 - yoe \div 100)
        mp == (5 * doy + 2) \div 153
        d == doy - (153 * mp + 2) \div 5 + 1
        m == IF mp < 10 THEN mp + 3 ELSE mp - 9
        y == yoe + era * 400 + (IF m <= 2 THEN 1 ELSE 0)
    IN  <<y, m, d>>

\* new Date("YYYY-MM-DD"): a date-only string is midnight UTC (line 171)
DateParse(str) == DaysFromCivil(str[1], str[2], str[3]) * MinutesPerDay

\* date.setMonth(date.getMonth() + 1): local-time fields, month + 1, the day
\* number counted from the first of the target month, back to UTC (line 175)
SetMonthPlusOne(t, tz) ==
    LET lt == t + tz
        lday == lt \div MinutesPerDay
        ltime == lt % MinutesPerDay
        lc == CivilFromDays(lday)
        month0 == (lc[2] - 1) + 1
        ym == lc[1] + month0 \div 12
        mn == month0 % 12
        newDay == DaysFromCivil(ym, mn + 1, 1) + lc[3] - 1
    IN  (newDay * MinutesPerDay + ltime) - tz

\* date.toISOString().split('T')[0]: the UTC calendar date (line 178)
ToISODate(t) == CivilFromDays(t \div MinutesPerDay)

-----------------------------------------------------------------------------
\* Inputs

Statuses == {"Pending", "Adjourned", "Closed"}

\* The fields handleSubmit requires (line 129)
RequiredFields == {"caseNumber", "courtName", "clientName", "hearingDate"}

\* The empty value of a form field: the text inputs hold "", the date input <<>>
EmptyValue(f) == IF f = "hearingDate" THEN <<>> ELSE ""

\* A filled form: formData (lines 33-42) after handleInputChange filled it in
FilledForm(status) ==
    [caseNumber |-> "CV-1", courtName |-> "High Court", caseType |-> "Civil",
     clientName |-> "Ali", opponentName |-> "", hearingDate |-> <<2024, 3, 1>>,
     caseStatus |-> status, notes |-> ""]

\* The form with the fields in S left empty
Blanked(form, S) ==
    [f \in DOMAIN form |-> IF f \in S THEN EmptyValue(f) ELSE form[f]]

\* formData at submit time: filled, with one required field empty, or with all
\* four empty
FormInputs ==
    {FilledForm(st) : st \in Statuses}
        \cup {Blanked(FilledForm("Pending"), {f}) : f \in RequiredFields}
        \cup {Blanked(FilledForm("Pending"), RequiredFields)}

\* UTC offsets of the device, in minutes (New York winter, UTC, India)
TzOffsets == {0 - 300, 0, 330}

\* A case written by an earlier session: its id is an earlier clock reading
StoredCase ==
    [id |-> 0, caseNumber |-> "CV-0", courtName |-> "High Court",
     caseType |-> "Civil", clientName |-> "Ali", opponentName |-> "",
     hearingDate |-> <<2024, 1, 31>>, caseStatus |-> "Closed", notes |-> "",
     createdAt |-> 0]

\* What the key 'courtCases' can hold when the app starts
InitialStorage ==
    {Absent, EmptyText, Garbage, JsonText(JNull, FALSE), JsonText(JObject, FALSE),
     JsonText(JArray(<<>>), FALSE), JsonText(JArray(<<StoredCase>>), FALSE),
     JsonText(JArray(<<StoredCase>>), TRUE)}

\* Ids a handler can be called with: every clock reading, stored or not
CaseIds == 0..MaxClock

-----------------------------------------------------------------------------
\* Persistence (lines 84-107) and the save effect (lines 72-77)

\* loadCasesFromStorage: the `cases` state after it ran, `cur` when it calls
\* no setCases (key absent, empty text, or JSON.parse threw and was caught)
LoadCasesFromStorage(stored, cur) ==
    IF ~Truthy(stored) THEN cur
    ELSE IF JSONParseThrows(stored) THEN cur
    ELSE JSONParse(stored)

\* A storage write that throws (quota exceeded) leaves the stored value as it was
SetItem(stored, text, ok) == IF ok THEN text ELSE stored

\* Variant: the catch block drops the key when the write throws
SaveCasesToStorageDropping(cs, stored, ok) ==
    IF ok THEN JSONStringify(cs) ELSE Absent

\* saveCasesToStorage: the stored text after it ran; `ok` = setItem did not throw
SaveCasesToStorage(cs, stored, ok) == SetItem(stored, JSONStringify(cs), ok)

\* Variant: the effect saves on every run, the flag unchecked
SaveEffectSavesAlways(flag) == TRUE

\* The guard of the save effect, on the isInitialLoad of the render it closes over
SaveEffectSaves(flag) == ~flag

\* Variant: the effect's dependency list omits `cases`, so it never runs again
SaveEffectNotRerun(flag, cs, stored, ok) == stored

\* The save effect of a render whose closure holds (flag, cs)
SaveEffect(flag, cs, stored, ok) ==
    IF SaveEffectSaves(flag) THEN SaveCasesToStorage(cs, stored, ok) ELSE stored

\* Rendering calls getFilteredCases() and getUpcomingHearings(): cases.filter
\* throws a TypeError unless cases is an array (lines 209, 241, 266, 269)
RenderThrows(cs) == cs.t # "array"

-----------------------------------------------------------------------------
\* Handlers' pure parts

\* Variant: the validation forgets clientName
FormIncompleteNoClient(form) ==
    \/ form.caseNumber = ""
    \/ form.courtName = ""
    \/ form.hearingDate = <<>>

\* The validation of handleSubmit: some required field is empty (line 129)
FormIncomplete(form) ==
    \/ form.caseNumber = ""
    \/ form.courtName = ""
    \/ form.clientName = ""
    \/ form.hearingDate = <<>>

\* newCase (lines 135-139)
NewCase(form, clock) ==
    [id |-> clock, caseNumber |-> form.caseNumber, courtName |-> form.courtName,
     caseType |-> form.caseType, clientName |-> form.clientName,
     opponentName |-> form.opponentName, hearingDate |-> form.hearingDate,
     caseStatus |-> form.caseStatus, notes |-> form.notes, createdAt |-> clock]

\* formattedDate (lines 171-178)
FormattedDate(hearingDate, tz) ==
    ToISODate(SetMonthPlusOne(DateParse(hearingDate), tz))

\* Variant: a closed case keeps its status
AdvancedCaseKeepingClosed(caseItem, tz) ==
    [caseItem EXCEPT !.hearingDate = FormattedDate(caseItem.hearingDate, tz),
                     !.caseStatus = IF caseItem.caseStatus = "Closed"
                                    THEN "Closed" ELSE "Adjourned"]

\* The object the updater returns for the matching case (lines 180-184)
AdvancedCase(caseItem, tz) ==
    [caseItem EXCEPT !.hearingDate = FormattedDate(caseItem.hearingDate, tz),
                     !.caseStatus = "Adjourned"]

\* prev.map(...) of moveToNextHearing (lines 168-187)
MapNextHearing(items, caseId, tz) ==
    [i \in 1..Len(items) |->
        IF items[i].id = caseId THEN AdvancedCase(items[i], tz) ELSE items[i]]

KeepCase(caseItem, caseId) == caseItem.id # caseId

\* prev.filter(...) of deleteCase (line 197)
FilterOut(items, caseId) ==
    LET Keep(c) == KeepCase(c, caseId) IN SelectSeq(items, Keep)

-----------------------------------------------------------------------------
\* The state machine

NoEvent ==
    [op |-> "none", id |-> 0, missing |-> {}, alert |-> "none", save |-> "none",
     calls |-> 0, prev |-> JArray(<<>>), prevStorage |-> Absent]

\* The event just handled: `alert` is the message it showed, `calls` counts its
\* localStorage.setItem calls and `save` tells how the last of them ended
Event(o, i, miss, msg, saved, ok) ==
    [op |-> o, id |-> i, missing |-> miss, alert |-> msg,
     save |-> IF ~saved THEN "none" ELSE IF ok THEN "ok" ELSE "failed",
     calls |-> IF saved THEN 1 ELSE 0,
     prev |-> cases, prevStorage |-> localStorage]

\* Start-up is over: the collection has been changed by the user
StartupOver == [initial |-> Absent, points |-> <<>>, over |-> TRUE]

\* The views before any render is tracked
NoRender == [filteredCases |-> <<>>, upcomingHearings |-> <<>>, urgent |-> <<>>]

Init ==
    /\ localStorage \in InitialStorage
    /\ cases = JArray(<<>>)
    /\ isInitialLoad = TRUE
    /\ pc = "mounting"
    /\ now = 1
    /\ tzOffset \in TzOffsets
    /\ ops = 0
    /\ last = NoEvent
    /\ startup = [initial |-> localStorage, points |-> <<>>, over |-> FALSE]
    /\ searchTerm = ""
    /\ filterCourt = ""
    /\ filterCaseType = ""
    /\ rendered = NoRender

\* Mount (lines 62-77): the first render's effects run in order: the load effect
\* (setCases, setIsInitialLoad(false)), then the save effect on the first
\* render's closure; the state updates cause a second render, whose save effect
\* runs because isInitialLoad changed.
Mount ==
    /\ pc = "mounting"
    /\ \E ok \in BOOLEAN :
        LET loaded == LoadCasesFromStorage(localStorage, cases)
            first == SaveEffect(isInitialLoad, cases, localStorage, ok)
            crash == RenderThrows(loaded)
            saved == SaveEffectSaves(isInitialLoad) \/ (~crash /\ SaveEffectSaves(FALSE))
        IN  /\ cases' = loaded
            /\ isInitialLoad' = FALSE
            /\ pc' = IF crash THEN "crashed" ELSE "idle"
            /\ localStorage' = IF crash THEN first
                               ELSE SaveEffect(FALSE, loaded, first, ok)
            /\ last' = Event("mount", 0, {}, "none", saved, ok)
            /\ startup' = [startup EXCEPT !.points = <<localStorage, first, localStorage'>>]
    /\ UNCHANGED <<now, tzOffset, ops>>
    /\ UNCHANGED viewVars

\* The re-render after setCases(next) and the save effect of that render
Commit(next, ok) ==
    /\ cases' = next
    /\ localStorage' = SaveEffect(isInitialLoad, next, localStorage, ok)
    /\ startup' = IF next = cases THEN startup ELSE StartupOver

\* The required fields the submitted form leaves empty
Missing(form) == {f \in RequiredFields : form[f] = EmptyValue(f)}

\* handleSubmit (lines 125-160)
HandleSubmit ==
    /\ pc = "idle"
    /\ ops < MaxOps
    /\ \E form \in FormInputs :
        IF FormIncomplete(form)
        THEN /\ UNCHANGED <<cases, localStorage, startup>>
             /\ last' = Event("create", now, Missing(form), "required", FALSE, FALSE)
        ELSE /\ Len(cases.items) < MaxCases
             /\ \E ok \in BOOLEAN :
                 /\ Commit(JArray(Append(cases.items, NewCase(form, now))), ok)
                 /\ last' = Event("create", now, Missing(form), "added",
                                  SaveEffectSaves(isInitialLoad), ok)
    /\ ops' = ops + 1
    /\ UNCHANGED <<isInitialLoad, pc, now, tzOffset>>
    /\ UNCHANGED viewVars

\* moveToNextHearing (lines 167-190)
MoveToNextHearing ==
    /\ pc = "idle"
    /\ ops < MaxOps
    /\ \E caseId \in CaseIds, ok \in BOOLEAN :
        /\ Commit(JArray(MapNextHearing(cases.items, caseId, tzOffset)), ok)
        /\ last' = Event("advance", caseId, {}, "moved",
                         SaveEffectSaves(isInitialLoad), ok)
    /\ ops' = ops + 1
    /\ UNCHANGED <<isInitialLoad, pc, now, tzOffset>>
    /\ UNCHANGED viewVars

\* deleteCase (lines 195-199); `confirmed` is the answer to window.confirm
DeleteCase ==
    /\ pc = "idle"
    /\ ops < MaxOps
    /\ \E caseId \in CaseIds, confirmed \in BOOLEAN :
        IF confirmed
        THEN \E ok \in BOOLEAN :
                 /\ Commit(JArray(FilterOut(cases.items, caseId)), ok)
                 /\ last' = Event("delete", caseId, {}, "none",
                                  SaveEffectSaves(isInitialLoad), ok)
        ELSE /\ UNCHANGED <<cases, localStorage, startup>>
             /\ last' = Event("cancel", caseId, {}, "none", FALSE, FALSE)
    /\ ops' = ops + 1
    /\ UNCHANGED <<isInitialLoad, pc, now, tzOffset>>
    /\ UNCHANGED viewVars

\* The device clock advances between events
Tick ==
    /\ now < MaxClock
    /\ now' = now + 1
    /\ UNCHANGED <<localStorage, cases, isInitialLoad, pc, tzOffset, ops, last, startup>>
    /\ UNCHANGED viewVars

Next == Mount \/ HandleSubmit \/ MoveToNextHearing \/ DeleteCase \/ Tick

Spec == Init /\ [][Next]_vars

-----------------------------------------------------------------------------
\* Text (String.prototype.toLowerCase and includes, lines 244-245)

\* The characters of the strings in play (a string is atomic here)
Chars(str) ==
    CASE str = "" -> <<>>
      [] str = "ab" -> <<"a", "b">>
      [] str = "AB" -> <<"A", "B">>
      [] str = "zed" -> <<"z", "e", "d">>
      [] str = "Zed" -> <<"Z", "e", "d">>
      [] str = "Ali" -> <<"A", "l", "i">>
      [] str = "Abdul Rahman" ->
            <<"A", "b", "d", "u", "l", " ", "R", "a", "h", "m", "a", "n">>
      [] str = "CV-AB-2024" -> <<"C", "V", "-", "A", "B", "-", "2", "0", "2", "4">>
      [] str = "CR-7" -> <<"C", "R", "-", "7">>
      [] str = "CR-9" -> <<"C", "R", "-", "9">>
      [] str = "CV-8" -> <<"C", "V", "-", "8">>
      [] str = "CV-1" -> <<"C", "V", "-", "1">>
      [] str = "CV-0" -> <<"C", "V", "-", "0">>

UpperLetters ==
    <<"A", "B", "C", "D", "E", "F", "G", "H", "I", "J", "K", "L", "M",
      "N", "O", "P", "Q", "R", "S", "T", "U", "V", "W", "X", "Y", "Z">>

LowerLetters ==
    <<"a", "b", "c", "d", "e", "f", "g", "h", "i", "j", "k", "l", "m",
      "n", "o", "p", "q", "r", "s", "t", "u", "v", "w", "x", "y", "z">>

\* The lower-case letter of each upper-case letter
LowerCaseOf ==
    [c \in {UpperLetters[i] : i \in 1..Len(UpperLetters)} |->
        LowerLetters[CHOOSE i \in 1..Len(UpperLetters) : UpperLetters[i] = c]]

\* toLowerCase of one character
LowerChar(c) == IF c \in DOMAIN LowerCaseOf THEN LowerCaseOf[c] ELSE c

\* str.toLowerCase(), on the characters
ToLowerCase(chars) == [i \in 1..Len(chars) |-> LowerChar(chars[i])]

\* hay.includes(needle), on the characters
Includes(hay, needle) ==
    \E i \in 0..(Len(hay) - Len(needle)) :
        SubSeq(hay, i + 1, i + Len(needle)) = needle

-----------------------------------------------------------------------------
\* Derived views (lines 205-255)

\* Variant: the search looks at the case number only
MatchesSearchNumberOnly(caseItem, term) ==
    \/ term = ""
    \/ Includes(ToLowerCase(Chars(caseItem.caseNumber)), ToLowerCase(Chars(term)))

\* matchesSearch (lines 243-245)
MatchesSearch(caseItem, term) ==
    \/ term = ""
    \/ Includes(ToLowerCase(Chars(caseItem.caseNumber)), ToLowerCase(Chars(term)))
    \/ Includes(ToLowerCase(Chars(caseItem.clientName)), ToLowerCase(Chars(term)))

\* matchesCourt (line 248)
MatchesCourt(caseItem, court) == court = "" \/ caseItem.courtName = court

\* matchesCaseType (line 251)
MatchesCaseType(caseItem, type) == type = "" \/ caseItem.caseType = type

\* getFilteredCases (lines 240-255)
GetFilteredCases(items, term, court, type) ==
    LET Keep(c) == /\ MatchesSearch(c, term)
                   /\ MatchesCourt(c, court)
                   /\ MatchesCaseType(c, type)
    IN  SelectSeq(items, Keep)

\* date.setHours(0, 0, 0, 0): midnight of the local day the time value falls in
SetHoursZero(t, tz) == ((t + tz) \div MinutesPerDay) * MinutesPerDay - tz

\* The filter of getUpcomingHearings (lines 206-214)
IsUpcoming(caseItem, clock, tz) ==
    SetHoursZero(DateParse(caseItem.hearingDate), tz) >= SetHoursZero(clock, tz)

\* The comparator of getUpcomingHearings (line 216)
CompareHearings(a, b) == DateParse(a.hearingDate) - DateParse(b.hearingDate)

\* One step of the (stable) Array.prototype.sort: c goes after every element
\* the comparator does not put behind it
InsertSorted(sorted, c) ==
    LET k == Cardinality({i \in 1..Len(sorted) : CompareHearings(sorted[i], c) <= 0})
    IN  SubSeq(sorted, 1, k) \o <<c>> \o SubSeq(sorted, k + 1, Len(sorted))

RECURSIVE SortHearings(_)
\* .sort(comparator) on the filtered copy (lines 215-217)
SortHearings(items) ==
    IF items = <<>> THEN <<>>
    ELSE InsertSorted(SortHearings(SubSeq(items, 1, Len(items) - 1)), items[Len(items)])

\* getUpcomingHearings (lines 205-218)
GetUpcomingHearings(items, clock, tz) ==
    LET Keep(c) == IsUpcoming(c, clock, tz) IN SortHearings(SelectSeq(items, Keep))

\* Math.ceil(a / b) for b > 0
CeilDiv(a, b) == 0 - ((0 - a) \div b)

\* isWithin7Days (lines 224-235)
IsWithin7Days(hearingDate, clock, tz) ==
    LET today == SetHoursZero(clock, tz)
        hearing == SetHoursZero(DateParse(hearingDate), tz)
        diffTime == hearing - today
        diffDays == CeilDiv(diffTime, MinutesPerDay)
    IN  diffDays >= 0 /\ diffDays <= 7

\* The views one render computes (lines 266, 269, 541)
Render(items, term, court, type, clock, tz) ==
    LET upcoming == GetUpcomingHearings(items, clock, tz)
    IN  [filteredCases |-> GetFilteredCases(items, term, court, type),
         upcomingHearings |-> upcoming,
         urgent |-> [i \in 1..Len(upcoming) |->
                        IsWithin7Days(upcoming[i].hearingDate, clock, tz)]]

-----------------------------------------------------------------------------
\* The settled app and its views

\* Bound: the length of the loaded collection
MaxViewCases == 3

\* A stored case with the given fields
ViewCase(i, number, court, type, client, date) ==
    [id |-> i, caseNumber |-> number, courtName |-> court, caseType |-> type,
     clientName |-> client, opponentName |-> "", hearingDate |-> date,
     caseStatus |-> "Pending", notes |-> "", createdAt |-> i]

\* Cases of earlier sessions
ViewCases ==
    {ViewCase(11, "CV-AB-2024", "High Court", "Civil", "Zed", <<2024, 3, 13>>),
     ViewCase(12, "CR-7", "District Court", "Criminal", "Abdul Rahman", <<2024, 3, 10>>),
     ViewCase(13, "CR-9", "High Court", "Criminal", "Zed", <<2024, 3, 11>>),
     ViewCase(14, "CV-8", "High Court", "Civil", "Ali", <<2024, 3, 10>>)}

\* Loaded collections: cases of earlier sessions, each at most once, in any order
ViewCollections ==
    {items \in UNION {[1..n -> ViewCases] : n \in 0..MaxViewCases} :
        \A i, j \in 1..Len(items) : i # j => items[i] # items[j]}

\* Clock readings (minutes since the epoch): 02:00, 12:00 and 21:00 UTC of
\* 2024-03-03, -10 and -11
Instants ==
    {DaysFromCivil(2024, 3, d) * MinutesPerDay + h * 60 :
        d \in {3, 10, 11}, h \in {2, 12, 21}}

SearchTerms == {"", "ab", "AB", "zed"}
CourtFilters == {"", "High Court", "District Court"}
CaseTypeFilters == {"", "Civil", "Criminal"}

ViewInit ==
    /\ cases \in {JArray(items) : items \in ViewCollections}
    /\ localStorage = JSONStringify(cases)
    /\ isInitialLoad = FALSE
    /\ pc = "idle"
    /\ now \in Instants
    /\ tzOffset \in TzOffsets
    /\ ops = 0
    /\ last = NoEvent
    /\ startup = StartupOver
    /\ searchTerm = ""
    /\ filterCourt = ""
    /\ filterCaseType = ""
    /\ rendered = Render(cases.items, "", "", "", now, tzOffset)

\* The re-render after a change of the search or filter state
Rerender ==
    /\ rendered' = Render(cases.items, searchTerm', filterCourt', filterCaseType',
                          now, tzOffset)
    /\ UNCHANGED <<localStorage, cases, isInitialLoad, pc, now, tzOffset, ops,
                   last, startup>>

\* onChange of the search box (line 305)
SetSearchTerm ==
    /\ pc = "idle"
    /\ \E v \in SearchTerms : searchTerm' = v
    /\ UNCHANGED <<filterCourt, filterCaseType>>
    /\ Rerender

\* onChange of the court dropdown (line 313)
SetFilterCourt ==
    /\ pc = "idle"
    /\ \E v \in CourtFilters : filterCourt' = v
    /\ UNCHANGED <<searchTerm, filterCaseType>>
    /\ Rerender

\* onChange of the case type dropdown (line 324)
SetFilterCaseType ==
    /\ pc = "idle"
    /\ \E v \in CaseTypeFilters : filterCaseType' = v
    /\ UNCHANGED <<searchTerm, filterCourt>>
    /\ Rerender

ViewNext == SetSearchTerm \/ SetFilterCourt \/ SetFilterCaseType

ViewSpec == ViewInit /\ [][ViewNext]_vars

-----------------------------------------------------------------------------
\* Properties

Items == cases.items
PrevItems == last.prev.items
Matching(items, caseId) == {i \in 1..Len(items) : items[i].id = caseId}
IsMutation == last.op \in {"create", "advance", "delete"}

\* C1: no two cases of the collection share an id, and a successful createCase
\* assigns an id that no case already in the collection has.
C1_UniqueIds ==
    pc = "idle" =>
        /\ \A i, j \in 1..Len(Items) : i # j => Items[i].id # Items[j].id
        /\ (last.op = "create" /\ last.alert = "added") =>
               \A i \in 1..Len(PrevItems) : PrevItems[i].id # Items[Len(Items)].id

\* C2: the initial load triggers no save: mounting writes nothing to storage,
\* so the stored value after it is the stored value before it.
C2_MountDoesNotSave ==
    last.op = "mount" => localStorage = last.prevStorage

\* C3: write-through: once settled, a createCase, advanceHearing or deleteCase
\* that changes the collection makes exactly one save, and when that save
\* succeeds the stored text is the serialization of the current collection.
C3_WriteThrough ==
    (IsMutation /\ cases # last.prev) =>
        /\ ~isInitialLoad
        /\ last.calls = 1
        /\ last.save = "ok" =>
               /\ localStorage = JSONStringify(cases)
               /\ ~JSONParseThrows(localStorage)
               /\ JSONParse(localStorage) = cases

C3_Witness ==
    /\ last.op = "create"
    /\ last.save = "ok"
    /\ Len(Items) = 2
    /\ Len(PrevItems) = 1
    /\ last.prevStorage # localStorage
    /\ JSONParse(localStorage) = cases

\* C4: load never raises and leaves the app usable: with the key absent or its
\* content malformed (unparseable, or not a sequence) the collection after
\* load is the empty sequence.
C4_LoadFailsSoft ==
    (/\ last.op = "mount"
     /\ \/ last.prevStorage.kind \in {"absent", "empty", "garbage"}
        \/ last.prevStorage.kind = "json" /\ last.prevStorage.value.t # "array")
        => cases = JArray(<<>>) /\ pc = "idle"

\* C5: createCase with a required field empty reports a validation failure and
\* mutates nothing: collection and stored value are as before the call.
C5_InvalidCreateNoMutation ==
    (last.op = "create" /\ last.missing # {}) =>
        /\ last.alert = "required"
        /\ cases = last.prev
        /\ localStorage = last.prevStorage
        /\ last.calls = 0

C5_Witness ==
    /\ last.op = "create"
    /\ last.missing = {"clientName"}
    /\ last.alert = "required"
    /\ Len(Items) = 1
    /\ localStorage = JSONStringify(cases)

\* C6: a failed save is caught: the mutation stays in memory, the stored value
\* stays at its previous content, nothing is retried, and a save that succeeds
\* makes the stored value the then-current collection.
C6_FailedSaveKeepsMemory ==
    /\ last.save = "failed" =>
        /\ localStorage = last.prevStorage
        /\ last.calls = 1
        /\ pc = "idle"
        /\ last.op = "create" =>
               /\ Len(Items) = Len(PrevItems) + 1
               /\ SubSeq(Items, 1, Len(PrevItems)) = PrevItems
               /\ Items[Len(Items)].id = last.id
        /\ last.op = "delete" =>
               /\ Matching(Items, last.id) = {}
               /\ Len(Items) = Len(PrevItems) - Cardinality(Matching(PrevItems, last.id))
        /\ last.op = "advance" =>
               /\ Len(Items) = Len(PrevItems)
               /\ \A i \in Matching(PrevItems, last.id) :
                      Items[i].caseStatus = "Adjourned"
    /\ last.save = "ok" =>
        /\ ~JSONParseThrows(localStorage)
        /\ JSONParse(localStorage) = cases

C6_Witness ==
    /\ last.op = "create"
    /\ last.save = "failed"
    /\ Len(Items) = Len(PrevItems) + 1
    /\ localStorage = JSONStringify(last.prev)

\* Number of days of month m of year y
DaysInMonth(y, m) ==
    IF m = 2 THEN (IF (y % 4 = 0 /\ y % 100 # 0) \/ y % 400 = 0 THEN 29 ELSE 28)
    ELSE IF m \in {4, 6, 9, 11} THEN 30 ELSE 31

\* The dates "one calendar month later" allows for the date-only string d: the
\* same day of the following month when it exists, else the last days of that
\* month or the first days of the one after (clamp or rollover)
OneMonthLater(d) ==
    LET y2 == IF d[2] = 12 THEN d[1] + 1 ELSE d[1]
        m2 == IF d[2] = 12 THEN 1 ELSE d[2] + 1
        y3 == IF m2 = 12 THEN y2 + 1 ELSE y2
        m3 == IF m2 = 12 THEN 1 ELSE m2 + 1
    IN  IF d[3] <= DaysInMonth(y2, m2) THEN {<<y2, m2, d[3]>>}
        ELSE {<<y2, m2, k>> : k \in 28..DaysInMonth(y2, m2)}
                 \cup {<<y3, m3, k>> : k \in 1..3}

\* C7: advanceHearing replaces hearingDate by the calendar date exactly one
\* month later, for every stored date and every UTC offset of the device.
C7_ExactlyOneMonthLater ==
    last.op = "advance" =>
        \A i \in Matching(PrevItems, last.id) :
            Items[i].hearingDate \in OneMonthLater(PrevItems[i].hearingDate)

\* C8: after advanceHearing on an existing case its caseStatus is Adjourned,
\* whatever it was before.
C8_AdvanceSetsAdjourned ==
    last.op = "advance" =>
        /\ Len(Items) = Len(PrevItems)
        /\ \A i \in Matching(PrevItems, last.id) :
               Items[i].id = last.id /\ Items[i].caseStatus = "Adjourned"

C8_Witness ==
    /\ last.op = "advance"
    /\ \E i \in Matching(PrevItems, last.id) :
           /\ PrevItems[i].caseStatus = "Closed"
           /\ Items[i].caseStatus = "Adjourned"

\* C9: advanceHearing changes nothing but hearingDate and caseStatus of the
\* one case whose id matches: every other case, the order and the length stay,
\* and with no matching case the collection is unchanged.
C9_AdvanceFrame ==
    last.op = "advance" =>
        /\ pc = "idle"
        /\ Len(Items) = Len(PrevItems)
        /\ Cardinality({i \in 1..Len(PrevItems) : Items[i] # PrevItems[i]}) <= 1
        /\ \A i \in 1..Len(PrevItems) :
               \/ Items[i] = PrevItems[i]
               \/ /\ PrevItems[i].id = last.id
                  /\ Items[i] = [PrevItems[i] EXCEPT
                                    !.hearingDate = Items[i].hearingDate,
                                    !.caseStatus = Items[i].caseStatus]
        /\ Matching(PrevItems, last.id) = {} => cases = last.prev

\* The sequence without its k-th element
RemoveAt(items, k) ==
    [i \in 1..(Len(items) - 1) |-> IF i < k THEN items[i] ELSE items[i + 1]]

\* C10: a confirmed deleteCase removes exactly the case with that id and keeps
\* every other case, with its fields and in its order; with no matching case
\* the collection is unchanged.
C10_DeleteFrame ==
    last.op = "delete" =>
        /\ pc = "idle"
        /\ IF Matching(PrevItems, last.id) = {} THEN cases = last.prev
           ELSE \E k \in Matching(PrevItems, last.id) : Items = RemoveAt(PrevItems, k)

\* The stored text denotes the collection the start-up text denoted
SameAsInitial(text) ==
    /\ ~JSONParseThrows(text)
    /\ JSONParse(text) = JSONParse(startup.initial)

\* C14: start-up never loses valid stored data: when the key holds a valid
\* serialized collection at start, the stored text denotes that collection at
\* every point from start until the user first changes the collection, and
\* after initialization the in-memory collection is that collection.
C14_StartupKeepsStoredData ==
    (/\ ~startup.over
     /\ startup.initial.kind = "json"
     /\ startup.initial.value.t = "array") =>
        /\ SameAsInitial(localStorage)
        /\ \A k \in 1..Len(startup.points) : SameAsInitial(startup.points[k])
        /\ pc # "mounting" => pc = "idle" /\ cases = JSONParse(startup.initial)

C14_Witness ==
    /\ ~startup.over
    /\ startup.initial = JsonText(JArray(<<StoredCase>>), TRUE)
    /\ pc = "idle"
    /\ last.op = "cancel"
    /\ localStorage = JSONStringify(JArray(<<StoredCase>>))
    /\ cases = JArray(<<StoredCase>>)

\* Day number of a date-only string, and of the device's local calendar date
DayOf(date) == DaysFromCivil(date[1], date[2], date[3])
LocalToday == (now + tzOffset) \div MinutesPerDay

\* Whole days from today's calendar date to the hearing's calendar date
DaysUntil(date) == DayOf(date) - LocalToday

\* C11: isUrgent(hearingDate) is true iff the whole-day difference between the
\* hearing's calendar date and today's calendar date is in [0, 7], at any time
\* of day and for any UTC offset of the device.
C11_IsUrgent ==
    /\ \A i \in 1..Len(Items) :
           IsWithin7Days(Items[i].hearingDate, now, tzOffset)
               <=> (DaysUntil(Items[i].hearingDate) \in 0..7)
    /\ \A k \in 1..Len(rendered.upcomingHearings) :
           rendered.urgent[k]
               <=> (DaysUntil(rendered.upcomingHearings[k].hearingDate) \in 0..7)

\* C12: upcomingHearings is exactly the cases dated today or later, ascending
\* by hearingDate, cases of equal date in collection order; the stored
\* collection is not reordered or changed.
C12_UpcomingHearings ==
    LET up == rendered.upcomingHearings
        Kept == {i \in 1..Len(Items) : DaysUntil(Items[i].hearingDate) >= 0}
    IN  /\ Len(up) = Cardinality(Kept)
        /\ \E f \in [1..Len(up) -> Kept] :
               /\ \A k \in 1..Len(up) : up[k] = Items[f[k]]
               /\ \A k, l \in 1..Len(up) : k < l =>
                      /\ f[k] # f[l]
                      /\ DayOf(up[k].hearingDate) <= DayOf(up[l].hearingDate)
                      /\ DayOf(up[k].hearingDate) = DayOf(up[l].hearingDate)
                             => f[k] < f[l]
        /\ JSONParse(localStorage) = cases

\* Two characters are the same letter, case ignored
SameLetter(a, b) ==
    \/ a = b
    \/ \E j \in 1..Len(UpperLetters) : {a, b} = {UpperLetters[j], LowerLetters[j]}

\* needle occurs in hay, case ignored
ContainsIgnoringCase(hay, needle) ==
    \E i \in 0..(Len(hay) - Len(needle)) :
        \A k \in 1..Len(needle) : SameLetter(hay[i + k], needle[k])

\* The three filters of the claim, AND-combined
PassesFilters(c) ==
    /\ \/ searchTerm = ""
       \/ ContainsIgnoringCase(Chars(c.caseNumber), Chars(searchTerm))
       \/ ContainsIgnoringCase(Chars(c.clientName), Chars(searchTerm))
    /\ filterCourt = "" \/ c.courtName = filterCourt
    /\ filterCaseType = "" \/ c.caseType = filterCaseType

\* C13: filteredCases is, in collection order, exactly the cases that pass the
\* search (case-insensitive substring of caseNumber or clientName), the court
\* filter and the type filter; with all three empty it is the whole collection.
C13_FilteredCases ==
    LET out == rendered.filteredCases
        Pass == {i \in 1..Len(Items) : PassesFilters(Items[i])}
    IN  /\ Len(out) = Cardinality(Pass)
        /\ \A k \in 1..Len(out) :
               \E i \in Pass :
                   /\ out[k] = Items[i]
                   /\ Cardinality({j \in Pass : j < i}) = k - 1
        /\ (searchTerm = "" /\ filterCourt = "" /\ filterCaseType = "")
               => out = Items

C13_Witness ==
    /\ searchTerm = "ab"
    /\ filterCourt = ""
    /\ filterCaseType = ""
    /\ Len(Items) = 3
    /\ Len(rendered.filteredCases) = 2
    /\ rendered.filteredCases[1].clientName = "Abdul Rahman"
    /\ rendered.filteredCases[2].caseNumber = "CV-AB-2024"

====
